---- MODULE Spec2Model ----
(***************************************************************************)
(* Model of the list-ingestion pipeline of randomletterboxdmovie:          *)
(* src/pages/api/fetch-list.js (handler, extractListPath, fetchWithRetry,  *)
(* tryRssFeed, scrapeAllPages, dedupeFilms), and of the page component     *)
(* that calls it: src/pages/index.js (normalizeUrl, fetchList,             *)
(* pickRandomMovie and the form).                                          *)
(*                                                                         *)
(* Strings are modelled as sequences of tokens.  A token stands for a run  *)
(* of characters; the token "/" is the slash, the token "https://" holds   *)
(* slashes, every other token holds none.                                  *)
(***************************************************************************)
EXTENDS Integers, Sequences, FiniteSets, TLC

\* ------------------------------------------------------------------ bounds
\* most records the pagination walker accumulates in one run
MaxFilms == 2
\* most item containers on one scraped page
MaxItems == 1
\* most items in a parsed feed document
MaxFeed == 2
\* most movie-details requests of the page in flight at once
MaxMovieReqs == 2

\* ------------------------------------------------------- program constants
\* fetchWithRetry(url, options, retries = 2)
DefaultRetries == 2
\* setTimeout(r, 500 * (i + 1))
BackoffUnitMs == 500
\* if (page > 50) hasMore = false
MaxPage == 50
\* while (hasMore && consecutiveFailures < 2)
FailureBudget == 2

\* ------------------------------------------------------------------ helpers
Range(s) == {s[i] : i \in DOMAIN s}

SeqsUpTo(S, n) == UNION {[1..k -> S] : k \in 0..n}

\* ------------------------------------------------------- request input
\* req.query.url: undefined, a string, or (a repeated parameter) an array
Slash == "/"
Domain == "letterboxd.com"
ListWord == "list"

UrlStrings ==
    { <<>>,
      <<"not-a-url">>,
      <<"https://", Domain, Slash, "alice", Slash, ListWord, Slash, "favorites", Slash>>,
      <<"https://", Domain, Slash, "alice", Slash>>,
      <<"https://", Domain, Slash, ListWord, Slash, "favorites">>,
      <<"https://", Domain, Slash, "alice", Slash, ListWord, Slash>>,
      <<"https://", Domain, Slash, "alice", Slash, "films", Slash, ListWord, Slash, "favorites">>,
      <<"https://", "Letterboxd.com", Slash, "alice", Slash, ListWord, Slash, "favorites">>,
      <<"https://", "example.com", Slash, "alice", Slash, ListWord, Slash, "favorites">> }

UrlInputs ==
    { [kind |-> "undefined", str |-> <<>>], [kind |-> "array", str |-> <<>>] }
    \cup { [kind |-> "string", str |-> s] : s \in UrlStrings }

\* a token that holds a slash cannot be part of a [^/]+ group
HasSlash(tok) == tok \in {Slash, "https://"}

RECURSIVE NonSlashRun(_, _)
\* the greedy [^/]+ : the longest run of slash-free tokens of s from index i
NonSlashRun(s, i) ==
    IF i > Len(s) \/ HasSlash(s[i]) THEN <<>>
    ELSE <<s[i]>> \o NonSlashRun(s, i + 1)

\* the regular expression /letterboxd\.com\/([^/]+)\/list\/([^/]+)/ tried
\* at position i of s; the result is the pair of groups, or <<>> for no match
MatchAt(s, i) ==
    IF ~(i + 1 <= Len(s) /\ s[i] = Domain /\ s[i + 1] = Slash) THEN <<>>
    ELSE LET g1 == NonSlashRun(s, i + 2)
             j  == i + 2 + Len(g1)
         IN IF g1 = <<>> THEN <<>>
            ELSE IF ~(j + 2 <= Len(s) /\ s[j] = Slash /\ s[j + 1] = ListWord
                      /\ s[j + 2] = Slash) THEN <<>>
            ELSE LET g2 == NonSlashRun(s, j + 3)
                 IN IF g2 = <<>> THEN <<>> ELSE <<g1, g2>>

RECURSIVE FirstMatch(_, _)
\* String.prototype.match: the leftmost position at which the pattern matches
FirstMatch(s, i) ==
    IF i > Len(s) THEN <<>>
    ELSE IF MatchAt(s, i) # <<>> THEN MatchAt(s, i)
    ELSE FirstMatch(s, i + 1)

NoPath == <<>>

\* extractListPath with a pattern that lacks the \/list\/([^/]+) part
extractListPath_NoListMarker(s) ==
    LET hits == {i \in 1..(Len(s) - 2) :
                    s[i] = Domain /\ s[i + 1] = Slash /\ ~HasSlash(s[i + 2])}
    IN IF hits = {} THEN NoPath
       ELSE <<Slash>> \o NonSlashRun(s, (CHOOSE i \in hits : \A j \in hits : i <= j) + 2)

\* extractListPath(url) for a string url: `/${match[1]}/list/${match[2]}` or null
extractListPath(s) ==
    LET m == FirstMatch(s, 1)
    IN IF m = <<>> THEN NoPath
       ELSE <<Slash>> \o m[1] \o <<Slash, ListWord, Slash>> \o m[2]

\* ------------------------------------------------------------ fetchWithRetry
\* what one fetch() attempt can do: a success status, another status, a throw
AttemptOutcomes == {"ok", "status", "exc"}

AttemptSeqs == [1..(DefaultRetries + 1) -> AttemptOutcomes]

RECURSIVE fetchLoop(_, _, _, _)
\* the for loop of fetchWithRetry from loop index i on; outs[i + 1] is what
\* attempt i does, waits the delays slept so far
fetchLoop(outs, i, retries, waits) ==
    IF i > retries THEN [kind |-> "null", attempts |-> i, waits |-> waits]
    ELSE IF outs[i + 1] = "ok"
         THEN [kind |-> "response", attempts |-> i + 1, waits |-> waits]
    ELSE IF outs[i + 1] = "status"
         THEN IF i < retries
              THEN fetchLoop(outs, i + 1, retries,
                             Append(waits, BackoffUnitMs * (i + 1)))
              ELSE fetchLoop(outs, i + 1, retries, waits)
    ELSE IF i = retries
         THEN [kind |-> "throw", attempts |-> i + 1, waits |-> waits]
         ELSE fetchLoop(outs, i + 1, retries,
                        Append(waits, BackoffUnitMs * (i + 1)))

fetchWithRetry(outs) == fetchLoop(outs, 0, DefaultRetries, <<>>)

\* ------------------------------------------------------------- film records
NoTitle == <<>>
FilmBase == "https://letterboxd.com/film/"

\* the record pushed by scrapeAllPages for a container
ScrapedFilm(slug, title) ==
    [title |-> title, year |-> "", slug |-> slug,
     letterboxdUrl |-> <<FilmBase, slug, Slash>>]

\* li.posteritem containers: data-item-slug and data-item-name of the inner
\* div, each '' when the attribute (or the div) is missing
Containers ==
    { [slug |-> "a", name |-> <<"T1">>],
      [slug |-> "a", name |-> <<"T2">>],
      [slug |-> "b", name |-> <<"T1">>],
      [slug |-> "",  name |-> <<"T1">>],
      [slug |-> "a", name |-> NoTitle] }

\* a completeness test that forgets the slug
IsComplete_TitleOnly(c) == c.name # NoTitle

\* if (slug && title)
IsComplete(c) == c.slug # "" /\ c.name # NoTitle

RECURSIVE scrapePage(_)
\* filmElements.each(...): the records pushed for the containers of one page
scrapePage(cs) ==
    IF cs = <<>> THEN <<>>
    ELSE IF IsComplete(Head(cs))
         THEN <<ScrapedFilm(Head(cs).slug, Head(cs).name)>> \o scrapePage(Tail(cs))
         ELSE scrapePage(Tail(cs))

\* the pages a fetched list page can be: its containers and whether the
\* markup holds a next-page link (a.next or a[rel="next"])
PageBodies ==
    { [items |-> cs, next |-> nx] :
        cs \in SeqsUpTo(Containers, MaxItems), nx \in BOOLEAN }

\* ------------------------------------------------------------------ the feed
ListLink == <<"https://letterboxd.com/alice/list/favorites/">>

\* items of result.rss.channel[0].item
FeedItems ==
    { [link |-> <<FilmBase, "a", Slash>>, filmTitle |-> <<"T1">>,
       title |-> <<"x">>, year |-> "1999"],
      [link |-> <<FilmBase, "b", Slash>>, filmTitle |-> <<"T1">>,
       title |-> NoTitle, year |-> ""],
      [link |-> ListLink, filmTitle |-> NoTitle,
       title |-> <<"T1">>, year |-> ""] }

\* link.match(/letterboxd\.com\/film\/([^/]+)/)?.[1] || ''
SlugOfLink(link) ==
    LET hits == {i \in 1..(Len(link) - 1) :
                    link[i] = FilmBase /\ ~HasSlash(link[i + 1])}
    IN IF hits = {} THEN ""
       ELSE link[(CHOOSE i \in hits : \A j \in hits : i <= j) + 1]

\* the record tryRssFeed maps an item to
FeedFilm(item) ==
    LET title == IF item.filmTitle # NoTitle THEN item.filmTitle ELSE item.title
    IN [title |-> IF item.year # "" THEN title \o <<" (", item.year, ")">>
                  ELSE title,
        year |-> item.year,
        slug |-> SlugOfLink(item.link),
        letterboxdUrl |-> item.link]

RECURSIVE feedFilms(_)
\* items.map(...).filter((f) => f.slug)
feedFilms(items) ==
    IF items = <<>> THEN <<>>
    ELSE IF FeedFilm(Head(items)).slug # ""
         THEN <<FeedFilm(Head(items))>> \o feedFilms(Tail(items))
         ELSE feedFilms(Tail(items))

\* what the join sees of a task: null, or an array of records
NullResult == [null |-> TRUE, val |-> <<>>, rejected |-> FALSE]
ArrayResult(fs) == [null |-> FALSE, val |-> fs, rejected |-> FALSE]
\* a task whose promise rejects
Rejection == [null |-> TRUE, val |-> <<>>, rejected |-> TRUE]

\* --------------------------------------------------------------- dedupeFilms
RECURSIVE dedupeFrom(_, _)
\* films.filter with the seen set: seen holds the slugs kept so far
dedupeFrom(fs, seen) ==
    IF fs = <<>> THEN <<>>
    ELSE IF Head(fs).slug \in seen
         THEN dedupeFrom(Tail(fs), seen)
         ELSE <<Head(fs)>> \o dedupeFrom(Tail(fs), seen \cup {Head(fs).slug})

\* dedupeFilms that filters nothing
dedupeFilms_KeepAll(fs) == fs

RECURSIVE dedupeKeepLast(_)
\* dedupeFilms that keeps the last record of each slug
dedupeKeepLast(fs) ==
    IF fs = <<>> THEN <<>>
    ELSE IF \E i \in 2..Len(fs) : fs[i].slug = Head(fs).slug
         THEN dedupeKeepLast(Tail(fs))
         ELSE <<Head(fs)>> \o dedupeKeepLast(Tail(fs))

dedupeFilms_KeepLast(fs) == dedupeKeepLast(fs)

dedupeFilms(fs) == dedupeFrom(fs, {})

\* ------------------------------------------------------------------- state
VARIABLES
    url,                  \* req.query.url
    pc,                   \* handler: "start", "await" (at Promise.all), "done"
    listPath,             \* const listPath
    resStatus,            \* res.status(...), 0 while nothing is sent
    resError,             \* the error of the body, "" when there is none
    resFilms,             \* the films of the body
    sent,                 \* number of res.json(...) calls
    escaped,              \* an exception left the handler
    rssPc,                \* tryRssFeed: "idle", "fetch", "text", "parse", "done"
    rssFilms,             \* what tryRssFeed resolved with
    rssExit,              \* the return tryRssFeed left by: "noResponse",
                          \* "notFeed", "noItems", "films", "catch"; "" before
    walkPc,               \* scrapeAllPages: "idle", "fetch", "text", "done"
    page,                 \* let page
    hasMore,              \* let hasMore
    consecutiveFailures,  \* let consecutiveFailures
    films,                \* const films, the accumulator
    requested,            \* page indices whose pageUrl was handed to fetchWithRetry
    filmElementsEmpty,    \* filmElements.length === 0 in the iteration's scrape
    markupHasNext,        \* the page read in this iteration holds a next-page link
    failedPages,          \* value of page at each consecutiveFailures++ since the reset
    scrapedPages,         \* value of page at each cheerio.load(html), in order
    resetFrom,            \* while the body is read: the count that
                          \* consecutiveFailures = 0 overwrote, 0 otherwise
    pending               \* number of page requests handed to fetchWithRetry
                          \* that have not settled

handlerVars == <<url, pc, listPath, resStatus, resError, resFilms, sent, escaped>>
rssVars == <<rssPc, rssFilms, rssExit>>
walkVars == <<walkPc, page, hasMore, consecutiveFailures, films, requested,
              filmElementsEmpty, markupHasNext, failedPages, scrapedPages,
              resetFrom, pending>>

\* the page component Home of src/pages/index.js
VARIABLES
    cUrl,                 \* const [url, setUrl]
    cFilms,               \* const [films, setFilms]
    selectedMovie,        \* const [selectedMovie, setSelectedMovie]
    loading,              \* const [loading, setLoading]
    loadingMovie,         \* const [loadingMovie, setLoadingMovie]
    cError,               \* const [error, setError]
    listLoaded,           \* const [listLoaded, setListLoaded]
    cache,                \* cache.current
    listReqs,             \* fetchList calls waiting at await fetch(/api/fetch-list)
    movieReqs,            \* per slug, the pickRandomMovie calls waiting at
                          \* await fetch(/api/movie-details)
    lastCall              \* the function the last step ran

clientVars == <<cUrl, cFilms, selectedMovie, loading, loadingMovie, cError,
                listLoaded, cache, listReqs, movieReqs, lastCall>>
serverVars == <<handlerVars, rssVars, walkVars>>

\* one call of fetchWithRetry, attempt by attempt
VARIABLES
    fwPc,                 \* "idle", "fetch" (at await fetch), "sleep" (at await
                          \* new Promise(setTimeout)), "done"
    fwI,                  \* let i
    fwLog,                \* what each fetch() of the call did, in order
    fwTrace,              \* the fetches and the sleeps of the call, in order
    fwResult              \* "response", "null", "throw", "" before the return

retryVars == <<fwPc, fwI, fwLog, fwTrace, fwResult>>
vars == <<serverVars, clientVars, retryVars>>

\* the state of a request before the handler runs
RequestReceived ==
    /\ pc = "start"
    /\ listPath = NoPath
    /\ resStatus = 0
    /\ resError = ""
    /\ resFilms = <<>>
    /\ sent = 0
    /\ escaped = FALSE
    /\ rssPc = "idle"
    /\ rssFilms = NullResult
    /\ rssExit = ""
    /\ walkPc = "idle"
    /\ page = 1
    /\ hasMore = TRUE
    /\ consecutiveFailures = 0
    /\ films = <<>>
    /\ requested = {}
    /\ filmElementsEmpty = FALSE
    /\ markupHasNext = FALSE
    /\ failedPages = <<>>
    /\ scrapedPages = <<>>
    /\ resetFrom = 0
    /\ pending = 0

\* the slugs of the films a list response can hold
FilmSlugs == {"a", "b"}

\* useState(...) and useRef(...) of the first render
NoMovie == [slug |-> ""]
EmptyCache == [url |-> <<>>, films |-> <<>>]
Mounted ==
    /\ cUrl = <<>>
    /\ cFilms = <<>>
    /\ selectedMovie = NoMovie
    /\ loading = FALSE
    /\ loadingMovie = FALSE
    /\ cError = ""
    /\ listLoaded = FALSE
    /\ cache = EmptyCache
    /\ listReqs = {}
    /\ movieReqs = [g \in FilmSlugs |-> 0]
    /\ lastCall = "render"

\* no call of fetchWithRetry is followed attempt by attempt
NotCalled ==
    /\ fwPc = "idle"
    /\ fwI = 0
    /\ fwLog = <<>>
    /\ fwTrace = <<>>
    /\ fwResult = ""

Init ==
    /\ url \in UrlInputs
    /\ RequestReceived
    /\ Mounted
    /\ NotCalled

\* ----------------------------------------------------------------- handler
MsgUrlRequired == "URL is required"
MsgInvalidUrl == "Invalid Letterboxd list URL"
MsgNotFound == "Could not fetch list. The list may be private or temporarily unavailable."
MsgFetchFailed == "Failed to fetch list"
\* the message of the error a fetch(), a body read or a parse throws
MsgFetchThrew == "fetch failed"
\* the message of the TypeError raised by url.match(...) on an array
MsgNotAFunction == "url.match is not a function"

Reply(status, error, fs) ==
    [status |-> status, error |-> error, films |-> fs, escaped |-> FALSE]

\* a handler whose catch block lets the exception go on to the caller
handlerCatch_Rethrow(exc) ==
    [status |-> 0, error |-> "", films |-> <<>>, escaped |-> TRUE]

\* catch (error) { ... res.status(500).json({ error: errorMessage }) }
handlerCatch(exc) ==
    Reply(500, IF exc.isError THEN exc.message ELSE MsgFetchFailed, <<>>)

\* a selection that appends the feed's records to the walker's
selectFilms_Merge(rss, scraped) ==
    (IF scraped.null THEN <<>> ELSE scraped.val)
        \o (IF rss.null THEN <<>> ELSE rss.val)

\* a selection with no fallback on the feed
selectFilms_NoFallback(rss, scraped) ==
    IF ~scraped.null /\ Len(scraped.val) > 0 THEN scraped.val ELSE <<>>

\* a selection that prefers the feed and falls back on the walker
selectFilms_PreferFeed(rss, scraped) ==
    IF ~rss.null /\ Len(rss.val) > 0 THEN rss.val
    ELSE IF ~scraped.null /\ Len(scraped.val) > 0 THEN scraped.val
    ELSE <<>>

\* Prefer scraped results (more complete), fallback to RSS
selectFilms(rss, scraped) ==
    IF ~scraped.null /\ Len(scraped.val) > 0 THEN scraped.val
    ELSE IF ~rss.null /\ Len(rss.val) > 0 THEN rss.val
    ELSE <<>>

\* a response stage without the empty check
respond_NoEmptyCheck(rss, scraped) ==
    Reply(200, "", dedupeFilms(selectFilms(rss, scraped)))

\* a response stage that answers an empty collection with 204 and no body
respond_NoContent(rss, scraped) ==
    LET uniqueFilms == dedupeFilms(selectFilms(rss, scraped))
    IN IF Len(uniqueFilms) = 0 THEN Reply(204, "", <<>>)
       ELSE Reply(200, "", uniqueFilms)

\* dedupe, then 404 for an empty collection and 200 otherwise
respond(rss, scraped) ==
    LET uniqueFilms == dedupeFilms(selectFilms(rss, scraped))
    IN IF Len(uniqueFilms) = 0 THEN Reply(404, MsgNotFound, <<>>)
       ELSE Reply(200, "", uniqueFilms)

Send(r) ==
    /\ resStatus' = r.status
    /\ resError' = r.error
    /\ resFilms' = r.films
    /\ escaped' = r.escaped
    /\ sent' = IF r.escaped THEN sent ELSE sent + 1

\* the handler up to its first await: validation, extractListPath, and the
\* synchronous start of tryRssFeed and scrapeAllPages (each runs to its
\* first fetch)
HandlerStart ==
    /\ pc = "start"
    /\ IF url.kind = "undefined" \/ (url.kind = "string" /\ url.str = <<>>)
       THEN /\ Send(Reply(400, MsgUrlRequired, <<>>))
            /\ pc' = "done"
            /\ UNCHANGED <<listPath, rssVars, walkVars>>
       ELSE IF url.kind = "array"
       THEN /\ Send(handlerCatch([isError |-> TRUE, message |-> MsgNotAFunction]))
            /\ pc' = "done"
            /\ UNCHANGED <<listPath, rssVars, walkVars>>
       ELSE IF extractListPath(url.str) = NoPath
       THEN /\ Send(Reply(400, MsgInvalidUrl, <<>>))
            /\ pc' = "done"
            /\ UNCHANGED <<listPath, rssVars, walkVars>>
       ELSE /\ listPath' = extractListPath(url.str)
            /\ pc' = "await"
            /\ rssPc' = "fetch"
            /\ walkPc' = "fetch"
            /\ requested' = {page}
            /\ pending' = pending + 1
            /\ UNCHANGED <<resStatus, resError, resFilms, sent, escaped,
                           rssFilms, rssExit, page, hasMore,
                           consecutiveFailures, films, filmElementsEmpty,
                           markupHasNext, failedPages, scrapedPages,
                           resetFrom>>
    /\ UNCHANGED url
    /\ UNCHANGED <<clientVars, retryVars>>

\* a join that resolves as soon as one of the two tasks has (Promise.race)
allSettled_Race == rssPc = "done" \/ walkPc = "done"

\* await Promise.all([tryRssFeed(listPath), scrapeAllPages(listPath)])
allSettled == rssPc = "done" /\ walkPc = "done"

\* Promise.all resolves once both tasks have; selection, dedupe, response
HandlerJoin ==
    /\ pc = "await"
    /\ IF rssFilms.rejected
       THEN Send(handlerCatch([isError |-> TRUE, message |-> MsgFetchThrew]))
       ELSE allSettled /\ Send(respond(rssFilms, ArrayResult(films)))
    /\ pc' = "done"
    /\ UNCHANGED <<url, listPath, rssVars, walkVars>>
    /\ UNCHANGED <<clientVars, retryVars>>

\* ---------------------------------------------------------------- tryRssFeed
FeedTexts ==
    { <<"<?xml">>, <<" ", "<?xml">>, <<"<rss">>, <<"<!DOCTYPE html>">>, <<>> }

RECURSIVE Trim(_)
\* String.prototype.trim, of which only the leading part matters to startsWith
Trim(t) == IF t # <<>> /\ Head(t) = " " THEN Trim(Tail(t)) ELSE t

\* a test that lets every body through to the parser
LooksLikeFeed_AcceptsAll(t) == TRUE

\* text.trim().startsWith('<?xml') || text.trim().startsWith('<rss')
LooksLikeFeed(t) == Trim(t) # <<>> /\ Head(Trim(t)) \in {"<?xml", "<rss"}

RssDone(result, exit) ==
    /\ rssPc' = "done"
    /\ rssFilms' = result
    /\ rssExit' = exit

RssGoesOn(stage) ==
    /\ rssPc' = stage
    /\ UNCHANGED <<rssFilms, rssExit>>

\* a tryRssFeed without its try block: the error goes on to Promise.all
rssCatch_Rethrow(error) == Rejection

\* catch (error) { console.error('RSS feed failed:', error); return null; }
rssCatch(error) == NullResult

\* await fetchWithRetry(rssUrl, ...) settles
RssFetchSettles ==
    /\ rssPc = "fetch"
    /\ \E outs \in AttemptSeqs :
        LET r == fetchWithRetry(outs)
        IN IF r.kind = "response"
           THEN RssGoesOn("text")
           ELSE IF r.kind = "null" THEN RssDone(NullResult, "noResponse")
           ELSE RssDone(rssCatch(MsgFetchThrew), "catch")
    /\ UNCHANGED <<handlerVars, walkVars>>
    /\ UNCHANGED <<clientVars, retryVars>>

\* await response.text() settles: it throws, or yields the body
RssTextSettles ==
    /\ rssPc = "text"
    /\ \/ RssDone(rssCatch(MsgFetchThrew), "catch")
       \/ \E t \in FeedTexts :
            IF LooksLikeFeed(t)
            THEN RssGoesOn("parse")
            ELSE RssDone(NullResult, "notFeed")
    /\ UNCHANGED <<handlerVars, walkVars>>
    /\ UNCHANGED <<clientVars, retryVars>>

\* await parseStringPromise(text) settles: it throws, the document has no
\* rss.channel[0].item, or it has items
RssParseSettles ==
    /\ rssPc = "parse"
    /\ \/ RssDone(rssCatch(MsgFetchThrew), "catch")
       \/ RssDone(NullResult, "noItems")
       \/ \E items \in SeqsUpTo(FeedItems, MaxFeed) \ {<<>>} :
            RssDone(ArrayResult(feedFilms(items)), "films")
    /\ UNCHANGED <<handlerVars, walkVars>>
    /\ UNCHANGED <<clientVars, retryVars>>

\* ------------------------------------------------------------ scrapeAllPages
\* the walker's loop variables, and brk: the iteration ended with a break
Walker ==
    [page |-> page, hasMore |-> hasMore,
     consecutiveFailures |-> consecutiveFailures, films |-> films,
     brk |-> FALSE]

\* while (hasMore && consecutiveFailures < 2)
loopCondition(w) == w.hasMore /\ w.consecutiveFailures < FailureBudget

\* a success branch that leaves the counter as it is
fetchSucceeded_NoReset(w) == w

\* consecutiveFailures = 0; // Reset on success
fetchSucceeded(w) == [w EXCEPT !.consecutiveFailures = 0]

\* a failure branch that moves on to the next page index
pageFailed_SkipsPage(w) ==
    [w EXCEPT !.consecutiveFailures = @ + 1, !.brk = (w.page = 1),
              !.page = IF w.page = 1 THEN 1 ELSE @ + 1]

\* a failure branch that throws the accumulated records away
pageFailed_ClearsFilms(w) ==
    [w EXCEPT !.consecutiveFailures = @ + 1, !.brk = (w.page = 1),
              !.films = <<>>]

\* a failure branch without the break on page 1
pageFailed_NoBreak(w) ==
    [w EXCEPT !.consecutiveFailures = @ + 1]

\* the failure branch (!response || !response.ok) and the catch block:
\* consecutiveFailures++, break on page 1, the loop goes on otherwise
pageFailed(w) ==
    [w EXCEPT !.consecutiveFailures = @ + 1, !.brk = (w.page = 1)]

\* a scrape that lets the next-page link decide for a page with no item too
pageScraped_EmptyFollowsNext(w, body) ==
    LET p == IF body.next THEN w.page + 1 ELSE w.page
    IN [w EXCEPT !.films = @ \o scrapePage(body.items),
                 !.page = p,
                 !.hasMore = IF ~body.next \/ p > MaxPage THEN FALSE ELSE @]

\* a scrape without the safety limit
pageScraped_NoCeiling(w, body) ==
    IF Len(body.items) = 0
    THEN [w EXCEPT !.hasMore = FALSE, !.brk = TRUE]
    ELSE [w EXCEPT !.films = @ \o scrapePage(body.items),
                   !.page = IF body.next THEN @ + 1 ELSE @,
                   !.hasMore = IF ~body.next THEN FALSE ELSE @]

\* a scrape that ends the walk when a page yields no record
pageScraped_StopsWithoutRecord(w, body) ==
    IF Len(scrapePage(body.items)) = 0
    THEN [w EXCEPT !.hasMore = FALSE, !.brk = TRUE]
    ELSE LET p == IF body.next THEN w.page + 1 ELSE w.page
         IN [w EXCEPT !.films = @ \o scrapePage(body.items),
                      !.page = p,
                      !.hasMore = IF ~body.next \/ p > MaxPage THEN FALSE ELSE @]

\* the rest of the try block for a page that was fetched and read
pageScraped(w, body) ==
    IF Len(body.items) = 0
    THEN [w EXCEPT !.hasMore = FALSE, !.brk = TRUE]
    ELSE LET p == IF body.next THEN w.page + 1 ELSE w.page
         IN [w EXCEPT !.films = @ \o scrapePage(body.items),
                      !.page = p,
                      !.hasMore = IF ~body.next \/ p > MaxPage THEN FALSE ELSE @]

\* an iteration ended in state w: either the loop is left and the function
\* returns films, or the next iteration hands its pageUrl to fetchWithRetry
\* n requests being in flight when the iteration ended
WalkIterate(w, n) ==
    /\ page' = w.page
    /\ hasMore' = w.hasMore
    /\ consecutiveFailures' = w.consecutiveFailures
    /\ films' = w.films
    /\ IF ~w.brk /\ loopCondition(w)
       THEN /\ walkPc' = "fetch"
            /\ requested' = requested \cup {w.page}
            /\ pending' = n + 1
       ELSE /\ walkPc' = "done"
            /\ pending' = n
            /\ UNCHANGED requested

\* a walker that hands the next page to fetchWithRetry as soon as a fetch
\* has settled, without waiting for the body
fetchSettled_Prefetch(n) == n - 1 + 1

\* const response = await fetchWithRetry(pageUrl, ...): the loop goes on only
\* when the one request it made has settled
fetchSettled(n) == n - 1

\* await fetchWithRetry(pageUrl, ...) settles with a response
WalkFetchOk ==
    /\ walkPc = "fetch"
    /\ \E outs \in AttemptSeqs : fetchWithRetry(outs).kind = "response"
    /\ consecutiveFailures' = fetchSucceeded(Walker).consecutiveFailures
    /\ resetFrom' = consecutiveFailures
    /\ pending' = fetchSettled(pending)
    /\ failedPages' = <<>>
    /\ walkPc' = "text"
    /\ filmElementsEmpty' = FALSE
    /\ markupHasNext' = FALSE
    /\ UNCHANGED <<handlerVars, rssVars, page, hasMore, films, requested,
                   scrapedPages>>
    /\ UNCHANGED <<clientVars, retryVars>>

\* await fetchWithRetry(pageUrl, ...) settles with null or throws
WalkFetchFails ==
    /\ walkPc = "fetch"
    /\ \E outs \in AttemptSeqs : fetchWithRetry(outs).kind \in {"null", "throw"}
    /\ WalkIterate(pageFailed(Walker), fetchSettled(pending))
    /\ failedPages' = Append(failedPages, page)
    /\ filmElementsEmpty' = FALSE
    /\ markupHasNext' = FALSE
    /\ UNCHANGED <<handlerVars, rssVars, scrapedPages, resetFrom>>
    /\ UNCHANGED <<clientVars, retryVars>>

\* await response.text() throws (cheerio.load alike): the catch block
WalkTextThrows ==
    /\ walkPc = "text"
    /\ WalkIterate(pageFailed(Walker), pending)
    /\ failedPages' = Append(failedPages, page)
    /\ filmElementsEmpty' = FALSE
    /\ markupHasNext' = FALSE
    /\ resetFrom' = 0
    /\ UNCHANGED <<handlerVars, rssVars, scrapedPages>>
    /\ UNCHANGED <<clientVars, retryVars>>

\* await response.text() yields the page, which is scraped
WalkPageScraped ==
    /\ walkPc = "text"
    /\ \E body \in PageBodies :
        /\ Len(films) + Len(scrapePage(body.items)) <= MaxFilms
        /\ WalkIterate(pageScraped(Walker, body), pending)
        /\ filmElementsEmpty' = (Len(body.items) = 0)
        /\ markupHasNext' = body.next
    /\ scrapedPages' = Append(scrapedPages, page)
    /\ resetFrom' = 0
    /\ UNCHANGED <<handlerVars, rssVars, failedPages>>
    /\ UNCHANGED <<clientVars, retryVars>>

\* ---------------------------------------------------------- specification
Next ==
    \/ HandlerStart
    \/ HandlerJoin
    \/ RssFetchSettles
    \/ RssTextSettles
    \/ RssParseSettles
    \/ WalkFetchOk
    \/ WalkFetchFails
    \/ WalkTextThrows
    \/ WalkPageScraped

Spec == Init /\ [][Next]_vars

\* the steps of each of the three flows of a request
HandlerStep == HandlerStart \/ HandlerJoin
RssStep == RssFetchSettles \/ RssTextSettles \/ RssParseSettles
WalkStep == WalkFetchOk \/ WalkFetchFails \/ WalkTextThrows \/ WalkPageScraped

\* the event loop runs the continuation of every promise that settles, and
\* every fetch, body read and parse settles: a flow that can take a step
\* takes one.  Which way a fetch or a read settles is the network's choice
\* and under no fairness.
SpecLive ==
    /\ Spec
    /\ WF_vars(HandlerStep)
    /\ WF_vars(RssStep)
    /\ WF_vars(WalkStep)

\* ------------------------------------------------------------------ claims
Done == pc = "done"

\* the url is a string of the list-URL shape: the source domain, a slash, an
\* owner segment, the list marker between slashes, and a list segment
MatchesListShape(u) ==
    /\ u.kind = "string"
    /\ \E i, j \in 1..Len(u.str) :
        /\ i + 2 < j
        /\ j + 3 <= Len(u.str)
        /\ u.str[i] = Domain
        /\ u.str[i + 1] = Slash
        /\ \A k \in (i + 2)..(j - 1) : ~HasSlash(u.str[k])
        /\ u.str[j] = Slash
        /\ u.str[j + 1] = ListWord
        /\ u.str[j + 2] = Slash
        /\ ~HasSlash(u.str[j + 3])

\* out lists, in the order of src, exactly the records of src that no
\* earlier record of src shares its slug with
IsFirstSeen(out, src) ==
    LET kept == {i \in DOMAIN src : \A j \in 1..(i - 1) : src[j].slug # src[i].slug}
    IN /\ Len(out) = Cardinality(kept)
       /\ \E f \in [DOMAIN out -> kept] :
            /\ \A m, n \in DOMAIN out : m < n => f[m] < f[n]
            /\ \A m \in DOMAIN out : out[m] = src[f[m]]

HasDuplicateSlug(fs) ==
    \E i, j \in DOMAIN fs : i < j /\ fs[i].slug = fs[j].slug

\* ------------------------------------------------------------- the client
Space == " "
UpperDomain == "Letterboxd.com"

\* what the user can type into the input
ClientUrls ==
    { <<>>,
      <<Space>>,
      <<"https://", Domain, Slash, "alice", Slash, ListWord, Slash, "favorites", Slash>>,
      <<"https://", Domain, Slash, "alice", Slash, ListWord, Slash, "favorites">>,
      <<"https://", UpperDomain, Slash, "alice", Slash, ListWord, Slash, "favorites">>,
      <<"https://", Domain, Slash, "bob", Slash, ListWord, Slash, "top">>,
      <<"https://", Domain, Slash, ListWord, Slash, "favorites">> }

RECURSIVE TrimEnd(_)
TrimEnd(t) ==
    IF t # <<>> /\ t[Len(t)] = Space THEN TrimEnd(SubSeq(t, 1, Len(t) - 1)) ELSE t

\* String.prototype.trim
TrimBoth(t) == TrimEnd(Trim(t))

RECURSIVE StripTrailingSlashes(_)
\* .replace(/\/+$/, '')
StripTrailingSlashes(t) ==
    IF t # <<>> /\ t[Len(t)] = Slash
    THEN StripTrailingSlashes(SubSeq(t, 1, Len(t) - 1))
    ELSE t

\* String.prototype.toLowerCase: the one token with an upper-case letter
toLowerCase(t) ==
    [i \in DOMAIN t |-> IF t[i] = UpperDomain THEN Domain ELSE t[i]]

\* inputUrl.trim().replace(/\/+$/, '').toLowerCase()
normalizeUrl(inputUrl) == toLowerCase(StripTrailingSlashes(TrimBoth(inputUrl)))

MsgEnterUrl == "Please enter a Letterboxd list URL"
MsgEnterValidUrl == "Please enter a valid Letterboxd list URL"
MsgNoFilmsInList == "No films found in this list"
MsgInvalidResponse == "Invalid response from server"
MsgNetwork == "Failed to fetch"
MsgMovieFailed == "Failed to fetch movie details"
MsgListError == "An error occurred while fetching the list"

\* url.includes('letterboxd.com')
includesDomain(t) == \E i \in DOMAIN t : t[i] = Domain

\* url.includes('/list/')
includesList(t) ==
    \E i \in 1..(Len(t) - 2) :
        HasSlash(t[i]) /\ t[i + 1] = ListWord /\ t[i + 2] = Slash

\* the two checks at the head of fetchList: the error they set, "" for none
validate(u) ==
    IF TrimBoth(u) = <<>> THEN MsgEnterUrl
    ELSE IF ~includesDomain(u) \/ ~includesList(u) THEN MsgEnterValidUrl
    ELSE ""

\* cache.current.url === normalizedUrl && cache.current.films.length > 0
cacheHit(c, normalizedUrl) == c.url = normalizedUrl /\ c.films # <<>>

\* data.films of a 200 response: the handler sends no empty and no
\* duplicated list
ClientFilmLists ==
    { fs \in SeqsUpTo({ScrapedFilm(g, <<"T1">>) : g \in FilmSlugs}, MaxFilms) :
        /\ fs # <<>>
        /\ \A i, j \in DOMAIN fs : fs[i].slug = fs[j].slug => i = j }

\* err.message of what a fetch-list call that does not deliver films throws:
\* data.error of an error status (400 for a url the handler rejects, 404
\* otherwise), an ok response without films, a body that is not JSON, a
\* rejected fetch, and a thrown value whose message is empty
ListFailures(r) ==
    { IF extractListPath(r.url) = NoPath THEN MsgInvalidUrl ELSE MsgNotFound,
      MsgNoFilmsInList, MsgInvalidResponse, MsgNetwork, "" }

\* err.message || 'An error occurred while fetching the list'
errorMessage(message) == IF message = "" THEN MsgListError ELSE message

\* catch (err) { setError(...); setFilms([]) } finally { setLoading(false) }
listFailed_NoFinally(message) ==
    [error |-> errorMessage(message), films |-> <<>>, loading |-> TRUE]

listFailed(message) ==
    [error |-> errorMessage(message), films |-> <<>>, loading |-> FALSE]

InFlight(reqs) == reqs["a"] + reqs["b"]

\* pickRandomMovie(filmList) up to its await fetch(...); the caller sets error
pickRandomMovie(filmList) ==
    IF filmList = <<>> THEN UNCHANGED <<loadingMovie, movieReqs>>
    ELSE /\ InFlight(movieReqs) < MaxMovieReqs
         /\ loadingMovie' = TRUE
         /\ \E i \in DOMAIN filmList :
              movieReqs' = [movieReqs EXCEPT ![filmList[i].slug] = @ + 1]

\* onChange={(e) => setUrl(e.target.value)}, the input is disabled={loading}
SetUrl ==
    /\ ~loading
    /\ \E u \in ClientUrls \ {cUrl} : cUrl' = u
    /\ lastCall' = "setUrl"
    /\ UNCHANGED <<cFilms, selectedMovie, loading, loadingMovie, cError,
                   listLoaded, cache, listReqs, movieReqs>>
    /\ UNCHANGED <<serverVars, retryVars>>

\* fetchList() up to its return or its await fetch(...), called by
\* handleSubmit and handleKeyDown; input and button are disabled={loading}
FetchList ==
    /\ ~loading
    /\ lastCall' = "fetchList"
    /\ IF validate(cUrl) # ""
       THEN /\ cError' = validate(cUrl)
            /\ UNCHANGED <<cFilms, selectedMovie, loading, loadingMovie,
                           listLoaded, cache, listReqs, movieReqs>>
       ELSE IF cacheHit(cache, normalizeUrl(cUrl))
       THEN /\ cFilms' = cache.films
            /\ listLoaded' = TRUE
            /\ cError' = ""
            /\ selectedMovie' = NoMovie
            /\ pickRandomMovie(cache.films)
            /\ UNCHANGED <<loading, cache, listReqs>>
       ELSE /\ loading' = TRUE
            /\ cError' = ""
            /\ selectedMovie' = NoMovie
            /\ listLoaded' = FALSE
            /\ listReqs' = listReqs \cup
                   {[url |-> cUrl, normalizedUrl |-> normalizeUrl(cUrl)]}
            /\ UNCHANGED <<cFilms, loadingMovie, cache, movieReqs>>
    /\ UNCHANGED cUrl
    /\ UNCHANGED <<serverVars, retryVars>>

\* a cache keyed by the url as typed
cacheWrite_RawUrl(r, fs) == [url |-> r.url, films |-> fs]

\* cache.current = { url: normalizedUrl, films: data.films }
cacheWrite(r, fs) == [url |-> r.normalizedUrl, films |-> fs]

\* the rest of fetchList after a response with films
ListDelivers ==
    /\ \E r \in listReqs, fs \in ClientFilmLists :
         /\ extractListPath(r.url) # NoPath
         /\ listReqs' = listReqs \ {r}
         /\ cache' = cacheWrite(r, fs)
         /\ cFilms' = fs
         /\ listLoaded' = TRUE
         /\ pickRandomMovie(fs)
    /\ cError' = ""
    /\ loading' = FALSE
    /\ lastCall' = "fetchList.films"
    /\ UNCHANGED <<cUrl, selectedMovie>>
    /\ UNCHANGED <<serverVars, retryVars>>

\* the rest of fetchList through its catch block
ListFails ==
    /\ \E r \in listReqs :
         /\ listReqs' = listReqs \ {r}
         /\ \E message \in ListFailures(r) :
              /\ cError' = listFailed(message).error
              /\ cFilms' = listFailed(message).films
              /\ loading' = listFailed(message).loading
    /\ lastCall' = "fetchList.catch"
    /\ UNCHANGED <<cUrl, selectedMovie, loadingMovie, listLoaded, cache,
                   movieReqs>>
    /\ UNCHANGED <<serverVars, retryVars>>

\* onClick={() => pickRandomMovie()}: the button is rendered when
\* listLoaded && !loading and is disabled={loadingMovie}
PickAnother ==
    /\ listLoaded /\ ~loading /\ ~loadingMovie
    /\ pickRandomMovie(cFilms)
    /\ cError' = IF cFilms = <<>> THEN cError ELSE ""
    /\ lastCall' = "pickRandomMovie"
    /\ UNCHANGED <<cUrl, cFilms, selectedMovie, loading, listLoaded, cache,
                   listReqs>>
    /\ UNCHANGED <<serverVars, retryVars>>

\* the rest of pickRandomMovie after an ok JSON response
MovieDelivers ==
    /\ \E g \in FilmSlugs :
         /\ movieReqs[g] > 0
         /\ movieReqs' = [movieReqs EXCEPT ![g] = @ - 1]
         /\ selectedMovie' = [slug |-> g]
    /\ loadingMovie' = FALSE
    /\ lastCall' = "pickRandomMovie.details"
    /\ UNCHANGED <<cUrl, cFilms, loading, cError, listLoaded, cache, listReqs>>
    /\ UNCHANGED <<serverVars, retryVars>>

\* the rest of pickRandomMovie through its catch block
MovieFails ==
    /\ \E g \in FilmSlugs :
         /\ movieReqs[g] > 0
         /\ movieReqs' = [movieReqs EXCEPT ![g] = @ - 1]
    /\ cError' = MsgMovieFailed
    /\ loadingMovie' = FALSE
    /\ lastCall' = "pickRandomMovie.catch"
    /\ UNCHANGED <<cUrl, cFilms, selectedMovie, loading, listLoaded, cache,
                   listReqs>>
    /\ UNCHANGED <<serverVars, retryVars>>

\* the page alone: no request of the handler's model is in progress
InitClient ==
    /\ url = [kind |-> "undefined", str |-> <<>>]
    /\ RequestReceived
    /\ Mounted
    /\ NotCalled

NextClient ==
    \/ SetUrl
    \/ FetchList
    \/ ListDelivers
    \/ ListFails
    \/ PickAnother
    \/ MovieDelivers
    \/ MovieFails

SpecClient == InitClient /\ [][NextClient]_vars

\* a fetch the browser has issued settles, and the event loop then runs the
\* continuation that awaits it
ListStep == ListDelivers \/ ListFails

MovieStep == MovieDelivers \/ MovieFails

SpecClientLive == SpecClient /\ WF_vars(ListStep) /\ WF_vars(MovieStep)

\* ----------------------------------------- fetchWithRetry, attempt by attempt
\* what one fetch() can do: a success status, a non-success status, a throw
FetchOutcomes == {"ok", "404", "429", "500", "exc"}

\* the outcome as fetchLoop reads it
Abstract(o) == IF o \in {"ok", "exc"} THEN o ELSE "status"

FetchEvent == [kind |-> "fetch", ms |-> 0]
SleepEvent(ms) == [kind |-> "sleep", ms |-> ms]

\* a loop that allows one attempt more
loopGoesOn_OneMore(i, retries) == i <= retries + 1

\* for (let i = 0; i <= retries; i++)
loopGoesOn(i, retries) == i <= retries

\* a delay that does not grow
backoff_Constant(i) == BackoffUnitMs

\* setTimeout(r, 500 * (i + 1))
backoff(i) == BackoffUnitMs * (i + 1)

\* a catch block that swallows the last exception too
rethrows_Never(i, retries) == FALSE

\* if (i === retries) throw error
rethrows(i, retries) == i = retries

\* i++ and the loop test: the next fetch, or return null
RetryLoop(i) ==
    /\ fwI' = i
    /\ IF loopGoesOn(i, DefaultRetries)
       THEN fwPc' = "fetch" /\ UNCHANGED fwResult
       ELSE fwPc' = "done" /\ fwResult' = "null"

\* await fetch(url, options) yields a response with response.ok
RetryFetchOk ==
    /\ fwPc = "fetch"
    /\ fwLog' = Append(fwLog, "ok")
    /\ fwTrace' = Append(fwTrace, FetchEvent)
    /\ fwPc' = "done"
    /\ fwResult' = "response"
    /\ UNCHANGED fwI
    /\ UNCHANGED <<serverVars, clientVars>>

\* await fetch(url, options) yields a response with another status
RetryFetchStatus ==
    /\ fwPc = "fetch"
    /\ \E o \in FetchOutcomes \ {"ok", "exc"} : fwLog' = Append(fwLog, o)
    /\ IF fwI < DefaultRetries
       THEN /\ fwTrace' = fwTrace \o <<FetchEvent, SleepEvent(backoff(fwI))>>
            /\ fwPc' = "sleep"
            /\ UNCHANGED <<fwI, fwResult>>
       ELSE /\ fwTrace' = Append(fwTrace, FetchEvent)
            /\ RetryLoop(fwI + 1)
    /\ UNCHANGED <<serverVars, clientVars>>

\* await fetch(url, options) throws
RetryFetchThrows ==
    /\ fwPc = "fetch"
    /\ fwLog' = Append(fwLog, "exc")
    /\ IF rethrows(fwI, DefaultRetries)
       THEN /\ fwTrace' = Append(fwTrace, FetchEvent)
            /\ fwPc' = "done"
            /\ fwResult' = "throw"
            /\ UNCHANGED fwI
       ELSE /\ fwTrace' = fwTrace \o <<FetchEvent, SleepEvent(backoff(fwI))>>
            /\ fwPc' = "sleep"
            /\ UNCHANGED <<fwI, fwResult>>
    /\ UNCHANGED <<serverVars, clientVars>>

\* the timer fires
RetryWakes ==
    /\ fwPc = "sleep"
    /\ RetryLoop(fwI + 1)
    /\ UNCHANGED <<fwLog, fwTrace>>
    /\ UNCHANGED <<serverVars, clientVars>>

\* fetchWithRetry(url, options) is called, retries = 2
InitRetry ==
    /\ url = [kind |-> "undefined", str |-> <<>>]
    /\ RequestReceived
    /\ Mounted
    /\ fwPc = "fetch"
    /\ fwI = 0
    /\ fwLog = <<>>
    /\ fwTrace = <<>>
    /\ fwResult = ""

NextRetry ==
    \/ RetryFetchOk
    \/ RetryFetchStatus
    \/ RetryFetchThrows
    \/ RetryWakes

SpecRetry == InitRetry /\ [][NextRetry]_vars

\* the positions of the fetches in the trace, and the number of fetches
FetchAt == {n \in DOMAIN fwTrace : fwTrace[n].kind = "fetch"}
SleepAt == {n \in DOMAIN fwTrace : fwTrace[n].kind = "sleep"}
\* the trace position n holds attempt number AttemptNo(n) when it is a fetch
AttemptNo(n) == Cardinality({m \in FetchAt : m <= n})

\* the call's outcome is the one fetchLoop computes from the attempts' outcomes
FetchLoopAgrees ==
    fwPc = "done" =>
        \A outs \in AttemptSeqs :
            (\A k \in DOMAIN fwLog : k <= Len(outs) => outs[k] = Abstract(fwLog[k])) =>
                LET r == fetchWithRetry(outs)
                IN /\ r.kind = fwResult
                   /\ r.attempts = Len(fwLog)
                   /\ r.waits = [k \in 1..Cardinality(SleepAt) |->
                                   fwTrace[CHOOSE n \in SleepAt :
                                       Cardinality({m \in SleepAt : m <= n}) = k].ms]

\* C1: the films of a 200 response hold no two records with equal slug
C1_NoDuplicateSlug ==
    (Done /\ resStatus = 200) => ~HasDuplicateSlug(resFilms)

C1_Witness ==
    /\ Done /\ resStatus = 200
    /\ HasDuplicateSlug(films)
    /\ Len(resFilms) < Len(films)

\* C2: the films of a 200 response are the first record of every slug of the
\* source that was selected, later records of a slug dropped, in source order
C2_FirstSeenOrder ==
    (Done /\ resStatus = 200) =>
        \/ IsFirstSeen(resFilms, films)
        \/ films = <<>> /\ IsFirstSeen(resFilms, rssFilms.val)

C2_Witness ==
    /\ Done /\ resStatus = 200
    /\ \E i, j \in DOMAIN films :
        i < j /\ films[i].slug = films[j].slug /\ films[i] # films[j]
    /\ resFilms[1] = films[1]

\* C3: when the walker returned a record, every film of the response is one
\* of the walker's records, whatever the feed returned
C3_WalkerOnly ==
    (Done /\ films # <<>>) =>
        /\ resStatus = 200
        /\ \A i \in DOMAIN resFilms : resFilms[i] \in Range(films)

C3_Witness ==
    /\ Done /\ films # <<>>
    /\ ~rssFilms.null
    /\ rssFilms.val # <<>>
    /\ \A i \in DOMAIN rssFilms.val : rssFilms.val[i] \notin Range(films)

\* C4: when the walker returned nothing and the feed N >= 1 records, the
\* response is 200 with the feed's records deduplicated, in feed order
C4_FeedFallback ==
    (Done /\ listPath # NoPath /\ films = <<>> /\ ~rssFilms.null
          /\ Len(rssFilms.val) >= 1) =>
        /\ resStatus = 200
        /\ IsFirstSeen(resFilms, rssFilms.val)

C4_Witness ==
    /\ Done /\ films = <<>> /\ ~rssFilms.null
    /\ Len(rssFilms.val) = 2
    /\ rssFilms.val[1].slug # rssFilms.val[2].slug
    /\ resStatus = 200

C6_NotFoundIffEmpty ==
    (Done /\ MatchesListShape(url)) =>
        /\ resStatus \in {200, 404}
        /\ resStatus = 404 <=>
              (films = <<>> /\ (rssFilms.null \/ rssFilms.val = <<>>))
        /\ resStatus = 404 => (resError # "" /\ resFilms = <<>>)
        /\ resStatus = 200 => (resFilms # <<>> /\ resError = "")

C6_Witness ==
    /\ Done /\ MatchesListShape(url)
    /\ resStatus = 404
    /\ ~rssFilms.null
    /\ scrapedPages # <<>>

\* C7: no exception leaves the handler; the one raised while the list path
\* is derived is answered with status 500 and an error body
C7_ExceptionsCaught ==
    /\ ~escaped
    /\ (Done /\ url.kind = "array") =>
          (resStatus = 500 /\ resError # "" /\ sent = 1)

C7_Witness ==
    Done /\ url.kind = "array" /\ resStatus = 500 /\ sent = 1

FixedMessages == {MsgUrlRequired, MsgInvalidUrl, MsgNotFound, MsgFetchFailed}

\* C8: the error of every failure response is one of the fixed messages,
\* never the message of an exception thrown in the pipeline
C8_FixedMessages ==
    resStatus \in {400, 404, 500} => resError \in FixedMessages

\* C9: a page that was fetched and read and holds no item container ends the
\* walk in that step, next-page link or not: no page is requested any more
\* and the accumulated records are the result
C9_EmptyPageStops ==
    [][(walkPc = "text" /\ filmElementsEmpty')
          => (walkPc' = "done" /\ films' = films /\ requested' = requested
              /\ page' = page)]_vars

C9_Witness ==
    /\ walkPc = "done"
    /\ filmElementsEmpty
    /\ markupHasNext
    /\ films # <<>>
    /\ page > 1

\* the walk ended on the failure budget after page 1, and only page 1, was scraped
StoppedAfterPageOne ==
    /\ walkPc = "done"
    /\ consecutiveFailures = FailureBudget
    /\ scrapedPages = <<1>>

\* C10 as stated: the two failed fetches were of page 2 and then of page 3
C10_FailsOnPages2And3 ==
    StoppedAfterPageOne => failedPages = <<2, 3>>

\* C10 as amended: after page 1 was scraped and signalled a next page, two
\* failures in a row, both of page 2, which is requested again and page 3
\* never, stop the walk; no failure changes the accumulated records, which
\* are those of page 1
C10_TwoFailuresOfPage2Stop ==
    /\ [](scrapedPages = <<>> => films = <<>>)
    /\ [](StoppedAfterPageOne =>
            (failedPages = <<2, 2>> /\ page = 2 /\ requested = {1, 2}))
    /\ [][(page = 2 /\ consecutiveFailures' = consecutiveFailures + 1) =>
            /\ films' = films
            /\ scrapedPages' = <<1>>
            /\ page' = 2
            /\ walkPc' = IF consecutiveFailures' = FailureBudget
                         THEN "done" ELSE "fetch"]_vars

C10_Witness ==
    StoppedAfterPageOne /\ films # <<>> /\ failedPages = <<2, 2>>

\* C11: a failure on a page n > 1 followed by a successful fetch does not
\* stop the walk: the success sets the counter to zero, so that the counter
\* is the number of failures since the last successful fetch; the page is
\* then scraped, its records are appended, and the walk goes on to the next
\* page when one is signalled
C11_FailureThenSuccessGoesOn ==
    /\ [](consecutiveFailures = Len(failedPages))
    /\ [][(walkPc = "fetch" /\ walkPc' = "text") =>
            (consecutiveFailures' = 0 /\ films' = films /\ page' = page)]_vars
    /\ [][(walkPc = "text" /\ scrapedPages' # scrapedPages
                /\ ~filmElementsEmpty') =>
            /\ consecutiveFailures' = 0
            /\ Len(films') >= Len(films)
            /\ SubSeq(films', 1, Len(films)) = films
            /\ (markupHasNext' /\ page < MaxPage) =>
                  (walkPc' = "fetch" /\ page' = page + 1
                   /\ requested' = requested \cup {page + 1})
            /\ ~markupHasNext' => (walkPc' = "done" /\ page' = page)]_vars

C11_Witness ==
    /\ walkPc = "text"
    /\ page > 1
    /\ resetFrom = 1
    /\ consecutiveFailures = 0
    /\ films # <<>>

\* C12: no page with an index above 50 is ever requested, and the pages
\* that were scraped are at most 50, all with an index of 1 to 50
C12_PageCeiling ==
    /\ requested \subseteq 1..MaxPage
    /\ Range(scrapedPages) \subseteq 1..MaxPage
    /\ Len(scrapedPages) <= MaxPage
    /\ walkPc \in {"fetch", "text"} => page <= MaxPage

C12_Witness ==
    /\ walkPc = "done"
    /\ page = MaxPage + 1
    /\ ~hasMore
    /\ requested = 1..MaxPage
    /\ Len(scrapedPages) = MaxPage

\* C13: every film of a 200 response has a non-empty slug, and so has every
\* record either source returned
C13_NonEmptySlug ==
    /\ \A i \in DOMAIN films : films[i].slug # ""
    /\ \A i \in DOMAIN rssFilms.val : rssFilms.val[i].slug # ""
    /\ (Done /\ resStatus = 200) =>
          \A i \in DOMAIN resFilms : resFilms[i].slug # ""

C13_Witness ==
    /\ Done /\ resStatus = 200
    /\ ~filmElementsEmpty
    /\ Len(scrapedPages) > Len(films)
    /\ resFilms = films

\* C17: a failed fetch of a page n > 1 adds one to the failure counter and
\* changes neither the accumulated records nor the page index; the request
\* that follows, if any, is for the same page
C17_FailureFrame ==
    [][(walkPc = "fetch" /\ page > 1 /\ Len(failedPages') > Len(failedPages)) =>
          /\ consecutiveFailures' = consecutiveFailures + 1
          /\ films' = films
          /\ page' = page
          /\ hasMore' = hasMore
          /\ scrapedPages' = scrapedPages
          /\ requested' = requested
          /\ walkPc' = IF consecutiveFailures' < FailureBudget
                       THEN "fetch" ELSE "done"]_vars

C17_Witness ==
    /\ walkPc = "fetch"
    /\ page > 2
    /\ failedPages = <<page>>
    /\ films # <<>>
    /\ page \in requested

\* C18: a failure on page 1 ends the walk at once: one failure, page 1 the
\* only page requested, and nothing accumulated
C18_FirstPageFailureStops ==
    (page = 1 /\ failedPages # <<>>) =>
        /\ walkPc = "done"
        /\ failedPages = <<1>>
        /\ consecutiveFailures = 1
        /\ requested = {1}
        /\ films = <<>>

C18_Witness ==
    /\ walkPc = "done"
    /\ page = 1
    /\ failedPages = <<1>>
    /\ scrapedPages = <<>>
    /\ Done /\ resStatus = 404

\* C19: a 200 or 404 response is sent only when tryRssFeed and
\* scrapeAllPages have both settled, and nothing is sent while the handler
\* waits for them
C19_RespondsAfterBoth ==
    /\ resStatus \in {200, 404} => (rssPc = "done" /\ walkPc = "done")
    /\ pc = "await" => (sent = 0 /\ resStatus = 0)

C19_Witness ==
    /\ Done /\ resStatus = 200
    /\ rssPc = "done" /\ walkPc = "done"
    /\ page > 1

\* C20: the response is a function of what the two tasks settled with,
\* whatever the order of their steps: 404 when neither returned a record,
\* else 200 with the first-seen records of the walker's result when it is
\* not empty and of the feed's otherwise; while the handler waits, a step of
\* one task changes no variable of the other, and a settled result stays
C20_OrderIndependent ==
    /\ [](Done /\ listPath # NoPath =>
            LET src == IF films # <<>> THEN films ELSE rssFilms.val
            IN /\ src = <<>> => (resStatus = 404 /\ resFilms = <<>>)
               /\ src # <<>> => (resStatus = 200 /\ IsFirstSeen(resFilms, src)))
    /\ [][pc = "await" =>
            /\ rssVars' # rssVars => walkVars' = walkVars
            /\ walkVars' # walkVars => rssVars' = rssVars
            /\ rssPc = "done" => rssVars' = rssVars
            /\ walkPc = "done" => walkVars' = walkVars]_vars

C20_Witness ==
    /\ pc = "await"
    /\ walkPc = "done" /\ films # <<>>
    /\ rssPc = "parse"

\* C16: every run of the walker that was started reaches its return
C16_WalkerStops == (walkPc = "fetch") ~> (walkPc = "done")

\* C14: two urls with the same normalized form are the same list: the
\* handler derives for each the list path it derived for the url of the
\* request, and the page's validation accepts both or neither
C14_NormalizedEqualSameList ==
    (pc # "start" /\ url.kind = "string") =>
        \A v \in UrlStrings \cup ClientUrls :
            normalizeUrl(v) = normalizeUrl(url.str) =>
                /\ extractListPath(v) = listPath
                /\ (validate(v) = "") = (validate(url.str) = "")

\* C15: a fetchList call with a url whose normalized form is the cached url,
\* the cache holding films, issues no fetch-list request, shows the cached
\* films and issues one movie-details request
C15_CachedUrlReusesFilms ==
    [][(lastCall' = "fetchList" /\ cache.films # <<>>
            /\ normalizeUrl(cUrl) = cache.url) =>
          /\ listReqs' = listReqs
          /\ cFilms' = cache.films
          /\ InFlight(movieReqs') = InFlight(movieReqs) + 1]_vars

\* C21: neither task rejects, a request with a valid url never ends in a 500
\* or an escaped exception, and when one task delivers nothing (the feed
\* resolved with null, or the walker returned no record after a failed
\* page) the response is the one the other task's result alone decides
C21_SourcesNeverAbort ==
    /\ ~rssFilms.rejected
    /\ listPath # NoPath => (resStatus \in {0, 200, 404} /\ ~escaped)
    /\ (Done /\ listPath # NoPath /\ rssFilms.null) =>
          /\ films = <<>> => (resStatus = 404 /\ resFilms = <<>>)
          /\ films # <<>> => (resStatus = 200 /\ IsFirstSeen(resFilms, films))
    /\ (Done /\ listPath # NoPath /\ films = <<>> /\ failedPages # <<>>) =>
          /\ rssFilms.val = <<>> => (resStatus = 404 /\ resFilms = <<>>)
          /\ rssFilms.val # <<>> =>
                (resStatus = 200 /\ IsFirstSeen(resFilms, rssFilms.val))

C21_Witness ==
    /\ Done /\ resStatus = 200
    /\ rssFilms.null
    /\ failedPages = <<2, 2>>
    /\ resFilms = films

\* C22: a call makes at most 3 fetches (1 + DefaultRetries); a fetch with a
\* success status is the last one and its response is returned; a call
\* that ends without a success has made all 3 fetches, whatever the kinds of
\* the failures were
C22_AtMostThreeAttempts ==
    /\ Len(fwLog) <= DefaultRetries + 1
    /\ Cardinality(FetchAt) = Len(fwLog)
    /\ \A k \in DOMAIN fwLog :
          fwLog[k] = "ok" =>
              (k = Len(fwLog) /\ fwPc = "done" /\ fwResult = "response")
    /\ (fwPc = "done" /\ fwResult # "response") =>
          Len(fwLog) = DefaultRetries + 1
    /\ (fwPc \in {"fetch", "sleep"}) => Len(fwLog) <= DefaultRetries

C22_Witness ==
    fwPc = "done" /\ fwLog = <<"exc", "500", "ok">> /\ fwResult = "response"

\* C23: when every fetch of a call failed, the call returns null if the last
\* fetch got a non-success status and throws if the last fetch threw; the
\* exceptions of the earlier fetches have no part in the outcome
C23_LastAttemptDecides ==
    /\ (fwPc = "done" /\ fwResult # "response") =>
          LET last == fwLog[Len(fwLog)]
          IN /\ Len(fwLog) = DefaultRetries + 1
             /\ fwResult = "null" <=> last \in FetchOutcomes \ {"ok", "exc"}
             /\ fwResult = "throw" <=> last = "exc"
    /\ fwPc # "done" => fwResult = ""

C23_Witness ==
    fwPc = "done" /\ fwLog = <<"exc", "exc", "404">> /\ fwResult = "null"

\* C24: the first fetch is the first event of a call; every later fetch
\* number k comes right after a sleep of 500 * (k - 1) ms, and every sleep
\* comes right after a failed fetch that was not the last one allowed; the
\* sleeps of a call grow strictly, and a finished call ends with a fetch
C24_BackoffGrows ==
    /\ fwTrace # <<>> => fwTrace[1].kind = "fetch"
    /\ \A n \in FetchAt :
          AttemptNo(n) >= 2 =>
              fwTrace[n - 1] = SleepEvent(BackoffUnitMs * (AttemptNo(n) - 1))
    /\ \A n \in SleepAt :
          /\ n > 1 /\ fwTrace[n - 1].kind = "fetch"
          /\ fwLog[AttemptNo(n)] # "ok"
          /\ AttemptNo(n) <= DefaultRetries
          /\ fwTrace[n].ms = BackoffUnitMs * AttemptNo(n)
    /\ \A m, n \in SleepAt : m < n => fwTrace[m].ms < fwTrace[n].ms
    /\ fwPc = "done" => fwTrace[Len(fwTrace)].kind = "fetch"

C24_Witness ==
    /\ fwPc = "done"
    /\ fwLog = <<"404", "exc", "500">>
    /\ fwTrace = <<FetchEvent, SleepEvent(BackoffUnitMs), FetchEvent,
                   SleepEvent(2 * BackoffUnitMs), FetchEvent>>

\* C25: at most one page request of the walker is in flight, exactly while
\* the walker waits for a fetch; a request is issued only when the walker
\* starts, when the fetch before it has settled as a failure (the same
\* page again), or when the body of the page before it has been read: the
\* same page again after a failed read, the next page after the scrape
C25_OnePageAtATime ==
    /\ [](pending <= 1 /\ (pending = 1 <=> walkPc = "fetch"))
    /\ [][(walkVars' # walkVars /\ walkPc' = "fetch") =>
            \/ walkPc = "idle" /\ pending = 0 /\ page' = 1
            \/ /\ walkPc = "fetch" /\ pending = 1 /\ page' = page
               /\ failedPages' = Append(failedPages, page)
            \/ /\ walkPc = "text" /\ pending = 0 /\ page' = page
               /\ failedPages' = Append(failedPages, page)
               /\ scrapedPages' = scrapedPages
            \/ /\ walkPc = "text" /\ pending = 0 /\ page' = page + 1
               /\ scrapedPages' = Append(scrapedPages, page)]_vars

C25_Witness ==
    walkPc = "fetch" /\ pending = 1 /\ page = 3 /\ scrapedPages = <<1, 2>>

\* out holds, in the order of cs, one record for each container of cs with a
\* non-empty slug and a non-empty title, and nothing else
IsExtraction(out, cs) ==
    LET kept == {i \in DOMAIN cs : cs[i].slug # "" /\ cs[i].name # NoTitle}
    IN /\ Len(out) = Cardinality(kept)
       /\ \E f \in [DOMAIN out -> kept] :
            /\ \A m, n \in DOMAIN out : m < n => f[m] < f[n]
            /\ \A m \in DOMAIN out :
                 /\ out[m].slug = cs[f[m]].slug
                 /\ out[m].title = cs[f[m]].name

\* C26: the records scraped from a page the walker reads are those of its
\* complete containers;
\* the scrape of a page with containers counts no failure, appends only
\* complete records to films, and, also when it appends nothing, goes to
\* the next page if the markup holds a next-page link and ends the walk if
\* it holds none
C26_IncompleteSkipped ==
    /\ [](walkPc = "text" =>
            \A cs \in SeqsUpTo(Containers, MaxItems) :
                IsExtraction(scrapePage(cs), cs))
    /\ [][(walkPc = "text" /\ scrapedPages' # scrapedPages
                /\ ~filmElementsEmpty') =>
            /\ consecutiveFailures' = 0
            /\ failedPages' = <<>>
            /\ Len(films') >= Len(films)
            /\ SubSeq(films', 1, Len(films)) = films
            /\ \A i \in (Len(films) + 1)..Len(films') :
                 films'[i].slug # "" /\ films'[i].title # NoTitle
            /\ markupHasNext' =>
                 /\ page' = page + 1
                 /\ page < MaxPage => (walkPc' = "fetch" /\ hasMore')
            /\ ~markupHasNext' =>
                 (page' = page /\ walkPc' = "done" /\ ~hasMore')]_vars

C26_Witness ==
    /\ walkPc = "fetch" /\ page = 3
    /\ scrapedPages = <<1, 2>>
    /\ ~filmElementsEmpty /\ markupHasNext
    /\ films = <<>>

\* C27: the test lets through exactly the bodies whose first token after
\* leading white space is an XML or rss declaration; a body that fails it
\* is met only after a fetch with a success status, makes tryRssFeed return
\* null without an error, and the response is then the one the walker's
\* films alone decide, never a 500
C27_NotAFeedIsNoData ==
    /\ [](\A t \in FeedTexts :
            LooksLikeFeed(t) <=>
                \E i \in DOMAIN t :
                    /\ t[i] \in {"<?xml", "<rss"}
                    /\ \A j \in 1..(i - 1) : t[j] = " ")
    /\ [](rssExit = "notFeed" =>
            /\ rssPc = "done" /\ rssFilms = NullResult
            /\ resStatus # 500 /\ ~escaped
            /\ Done =>
                 /\ films = <<>> => (resStatus = 404 /\ resFilms = <<>>)
                 /\ films # <<>> =>
                      (resStatus = 200 /\ IsFirstSeen(resFilms, films)))
    /\ [][(rssExit' = "notFeed" /\ rssExit # "notFeed") => rssPc = "text"]_vars

C27_Witness ==
    Done /\ rssExit = "notFeed" /\ resStatus = 200 /\ Len(films) = 2

\* C28: res.json is called at most once per request, in the step in which
\* the handler returns; a handler that has returned has called it once,
\* with a status among 200, 400, 404 and 500, and no exception has left it
C28_OneResponse ==
    /\ [](sent <= 1 /\ (sent = 1 <=> Done) /\ ~escaped)
    /\ [](sent = 0 => resStatus = 0)
    /\ [](sent = 1 => resStatus \in {200, 400, 404, 500})
    /\ [][sent' # sent => (sent' = sent + 1 /\ pc # "done" /\ pc' = "done")]_vars
    /\ [][pc = "done" => UNCHANGED <<resStatus, resError, resFilms, sent>>]_vars

C28_Witness ==
    /\ Done /\ sent = 1 /\ resStatus = 404
    /\ rssExit = "catch" /\ failedPages = <<1>>

\* C29: whenever the movie card is rendered (listLoaded, not loading, not
\* loadingMovie, a selected movie), the slug of the selected movie is the
\* slug of a film of the loaded list
C29_CardFromLoadedList ==
    (listLoaded /\ ~loading /\ ~loadingMovie /\ selectedMovie # NoMovie) =>
        \E i \in DOMAIN cFilms : cFilms[i].slug = selectedMovie.slug

\* C30: the cache changes only in the step that handles a fetch-list
\* response with films, and then holds the normalized form of the url of
\* that request together with the films of the response, which are not
\* empty; every other step leaves it as it is, and a cached url is never
\* without cached films
C30_CacheWrittenOnSuccessOnly ==
    /\ [](cache = EmptyCache \/ (cache.url # <<>> /\ cache.films # <<>>))
    /\ [][cache' # cache =>
            /\ lastCall' = "fetchList.films"
            /\ \E r \in listReqs \ listReqs' :
                 /\ cache'.url = normalizeUrl(r.url)
                 /\ cache'.url = normalizeUrl(cUrl)
            /\ cache'.films = cFilms'
            /\ cache'.films # <<>>]_vars
    /\ [][lastCall' # "fetchList.films" => cache' = cache]_vars

C30_Witness ==
    /\ lastCall = "fetchList.films"
    /\ cUrl[Len(cUrl)] = Slash
    /\ cache.url = normalizeUrl(cUrl)
    /\ cache.films = cFilms /\ Len(cFilms) = 2

\* C31: a fetchList call that sets loading to true has exactly one fetch-list
\* request in flight while loading is true; the step that handles the settled
\* request sets loading back to false whatever the outcome, a failed outcome
\* (error status, non-JSON body, no films, a throw) also leaves a non-empty
\* error and an empty film list, and, a request settling, loading that is
\* true becomes false
C31_RequestSettles == listReqs' # listReqs /\ listReqs' \subseteq listReqs

C31_LoadingEnds ==
    /\ [](loading <=> listReqs # {})
    /\ [][C31_RequestSettles =>
            /\ loading /\ ~loading'
            /\ lastCall' \in {"fetchList.films", "fetchList.catch"}
            /\ lastCall' = "fetchList.catch" =>
                  cError' # "" /\ cFilms' = <<>>
            /\ lastCall' = "fetchList.films" =>
                  cError' = "" /\ cFilms' # <<>>]_vars
    /\ (loading ~> ~loading)

C31_Witness ==
    /\ lastCall = "fetchList.catch"
    /\ ~loading
    /\ listReqs = {}
    /\ cError = MsgListError
    /\ cFilms = <<>>
    /\ cache.films # <<>>

====
